---------------------------- MODULE Spec2Model ----------------------------
(***************************************************************************)
(* A model of cuneifyplus (src/cuneify_interface.py): the file-backed      *)
(* symbol cache with its load-at-enter / write-at-exit lifecycle, the      *)
(* token lookup with pass-through and marker handling, the tokenizer and   *)
(* the line renderer.                                                      *)
(*                                                                         *)
(* Text is modelled as Python models it: a str is a sequence of code       *)
(* points (naturals), a bytes object is a sequence of byte values, and     *)
(* bytes.decode('utf-8') is the UTF-8 decoding between the two.            *)
(***************************************************************************)
EXTENDS Integers, Sequences, FiniteSets, TLC

(***************************************************************************)
(* Bounds of the model.                                                    *)
(***************************************************************************)
\* Longest token handed to get_cuneiform in the text specification.
MaxTokenLen == 3
\* Longest line handed to the tokenizer and the line renderer.
MaxLineLen == 3
\* Most words of a text handed to the sign-list builder.
MaxWords == 3
\* Most lines of a file handed to the document renderer.
MaxDocLines == 2

(***************************************************************************)
(* Characters (ord() of each) used by the code and by the model's inputs.  *)
(***************************************************************************)
Chr ==
    [ tab |-> 9, newline |-> 10, space |-> 32, bang |-> 33, hash |-> 35,
      hyphen |-> 45, dot |-> 46, one |-> 49, two |-> 50, three |-> 51,
      qmark |-> 63, A |-> 65, X |-> 88, lbracket |-> 91, rbracket |-> 93,
      a |-> 97, b |-> 98, l |-> 108, u |-> 117, x |-> 120, degree |-> 176,
      agrave |-> 224, aacute |-> 225, dagger |-> 8224, sqrt |-> 8730 ]

\* TOKEN_SEPARATORS = ('-', ' ', '.'); TOKEN_REGEX matches exactly one of them.
TOKEN_SEPARATORS == {Chr.hyphen, Chr.space, Chr.dot}

\* The characters str.strip() removes (ASCII whitespace).
Whitespace == {9, 10, 11, 12, 13, 28, 29, 30, 31, 32}

\* REPLACEMENT_MAP as it stands after the module-level update with the
\* upper-cased copies, in dict order.  The keys are the strings the source
\* file holds.  An upper-cased key that equals its original (no cased
\* character in it) overwrites the original's value with the upper-cased one.
REPLACEMENT_MAP ==
    << <<<<8776, 176>>, <<83, 90>>>>,
       <<<<183, 960, 163>>, <<115, 44>>>>,
       <<<<183, 960, 8800>>, <<116, 44>>>>,
       <<<<402, 249>>, <<106>>>>,
       <<<<183, 8719, 180>>, <<72>>>>,
       <<<<8218, 199, 196>>, <<48>>>>,
       <<<<8218, 199, 197>>, <<49>>>>,
       <<<<8218, 199, 199>>, <<50>>>>,
       <<<<8218, 199, 201>>, <<51>>>>,
       <<<<8218, 199, 209>>, <<52>>>>,
       <<<<8218, 199, 214>>, <<53>>>>,
       <<<<8218, 199, 220>>, <<54>>>>,
       <<<<8218, 199, 225>>, <<55>>>>,
       <<<<8218, 199, 224>>, <<56>>>>,
       <<<<8218, 199, 226>>, <<57>>>>,
       <<<<8218, 196, 242>>, <<39>>>>,
       <<<<8218, 196, 244>>, <<39>>>>,
       <<<<160, 230>>, <<39>>>>,
       <<<<8218, 196, 250>>, <<34>>>>,
       <<<<8218, 196, 249>>, <<34>>>>,
       <<<<8218, 196, 236>>, <<45>>>>,
       <<<<8218, 196, 238>>, <<45>>>>,
       <<<<183, 928, 163>>, <<83, 44>>>>,
       <<<<183, 928, 8800>>, <<84, 44>>>>,
       <<<<401, 217>>, <<74>>>>,
       <<<<8218, 199, 193>>, <<55>>>>,
       <<<<8218, 199, 192>>, <<56>>>>,
       <<<<8218, 199, 194>>, <<57>>>>,
       <<<<8218, 196, 210>>, <<39>>>>,
       <<<<8218, 196, 212>>, <<39>>>>,
       <<<<160, 198>>, <<39>>>>,
       <<<<8218, 196, 218>>, <<34>>>>,
       <<<<8218, 196, 217>>, <<34>>>>,
       <<<<8218, 196, 204>>, <<45>>>>,
       <<<<8218, 196, 206>>, <<45>>>> >>

\* ACUTE_VOWELS after its update, in dict order.
ACUTE_VOWELS ==
    << <<<<8730, 176>>, <<65>>>>,
       <<<<8730, 169>>, <<69>>>>,
       <<<<8730, 8800>>, <<73>>>>,
       <<<<8730, 8747>>, <<85>>>> >>

\* GRAVE_VOWELS after its update, in dict order.
GRAVE_VOWELS ==
    << <<<<8730, 8224>>, <<65>>>>,
       <<<<8730, 174>>, <<69>>>>,
       <<<<8730, 168>>, <<73>>>>,
       <<<<8730, 960>>, <<117>>>>,
       <<<<8730, 928>>, <<85>>>> >>

(***************************************************************************)
(* str operations.                                                         *)
(***************************************************************************)
\* s[i:] for a 1-based i.
From(s, i) == SubSeq(s, i, Len(s))

\* Whether sub occurs in s at position i.
OccursAt(s, i, sub) ==
    /\ i + Len(sub) - 1 <= Len(s)
    /\ SubSeq(s, i, i + Len(sub) - 1) = sub

\* sub in s
Contains(s, sub) == \E i \in 1..(Len(s) + 1) : OccursAt(s, i, sub)

\* s.replace(old, new) for a non-empty old: leftmost, non-overlapping.
RECURSIVE Replace(_, _, _)
Replace(s, old, new) ==
    IF s = <<>> THEN <<>>
    ELSE IF OccursAt(s, 1, old)
         THEN new \o Replace(From(s, Len(old) + 1), old, new)
         ELSE <<Head(s)>> \o Replace(Tail(s), old, new)

\* s.lstrip()
RECURSIVE LStrip(_)
LStrip(s) ==
    IF s # <<>> /\ Head(s) \in Whitespace THEN LStrip(Tail(s)) ELSE s

\* s.rstrip()
RECURSIVE RStrip(_)
RStrip(s) ==
    IF s # <<>> /\ s[Len(s)] \in Whitespace
    THEN RStrip(SubSeq(s, 1, Len(s) - 1))
    ELSE s

\* s.strip()
Strip(s) == RStrip(LStrip(s))

\* s.ljust(width): pad on the right with spaces.
RECURSIVE LJust(_, _)
LJust(s, width) ==
    IF Len(s) >= width THEN s ELSE LJust(s \o <<Chr.space>>, width)

\* c.lower() for one character: ASCII, Latin-1 and Greek capitals.
Lower(c) ==
    IF (c >= 65 /\ c <= 90) \/ (c >= 192 /\ c <= 222 /\ c # 215)
       \/ (c >= 913 /\ c <= 939)
    THEN c + 32
    ELSE c

\* set(s.lower())
LowerCaseCharacters(s) == {Lower(s[i]) : i \in 1..Len(s)}

\* sep.join(items)
RECURSIVE Join(_, _)
Join(sep, items) ==
    IF items = <<>> THEN <<>>
    ELSE IF Len(items) = 1 THEN items[1]
    ELSE items[1] \o sep \o Join(sep, Tail(items))

\* bytes.decode('utf-8') of well-formed UTF-8.
RECURSIVE Decode(_)
Decode(bytes) ==
    IF bytes = <<>> THEN <<>>
    ELSE LET b0 == bytes[1] IN
         IF b0 < 128 THEN <<b0>> \o Decode(From(bytes, 2))
         ELSE IF b0 < 224
              THEN <<(b0 % 32) * 64 + (bytes[2] % 64)>>
                   \o Decode(From(bytes, 3))
         ELSE IF b0 < 240
              THEN <<(b0 % 16) * 4096 + (bytes[2] % 64) * 64
                     + (bytes[3] % 64)>>
                   \o Decode(From(bytes, 4))
         ELSE <<(b0 % 8) * 262144 + (bytes[2] % 64) * 4096
                + (bytes[3] % 64) * 64 + (bytes[4] % 64)>>
              \o Decode(From(bytes, 5))

(***************************************************************************)
(* Normalizer.                                                             *)
(***************************************************************************)
\* for original, replacement in REPLACEMENT_MAP.items(): replace (which
\* changes nothing when original does not occur)
RECURSIVE ApplyReplacements(_, _)
ApplyReplacements(s, table) ==
    IF table = <<>> THEN s
    ELSE IF Contains(s, table[1][1])
    THEN ApplyReplacements(Replace(s, table[1][1], table[1][2]), Tail(table))
    ELSE ApplyReplacements(s, Tail(table))

\* for original, replacement in vowels.items():
\*     if original in t: t += suffix
\*     t = t.replace(original, replacement)
RECURSIVE ApplyVowels(_, _, _)
ApplyVowels(s, table, suffix) ==
    IF table = <<>> THEN s
    ELSE LET original == table[1][1]
             replacement == table[1][2]
             s1 == IF Contains(s, original) THEN s \o <<suffix>> ELSE s
         IN ApplyVowels(Replace(s1, original, replacement), Tail(table), suffix)

\* _remove_abbreviations: NotAToken on a separator, else the normalized key.
remove_abbreviations(transliteration) ==
    IF \E i \in 1..Len(transliteration) :
           transliteration[i] \in TOKEN_SEPARATORS
    THEN [kind |-> "raise", value |-> <<>>, exc |-> "NotAToken"]
    ELSE [ kind |-> "return",
           value |-> ApplyVowels(
                         ApplyVowels(
                             ApplyReplacements(transliteration,
                                               REPLACEMENT_MAP),
                             ACUTE_VOWELS, Chr.two),
                         GRAVE_VOWELS, Chr.three),
           exc |-> "" ]

(***************************************************************************)
(* Tokenizer.                                                              *)
(***************************************************************************)
\* re.split(TOKEN_REGEX, s): the pieces between separator characters, empty
\* pieces kept.
RECURSIVE SplitFrom(_, _)
SplitFrom(s, current) ==
    IF s = <<>> THEN <<current>>
    ELSE IF Head(s) \in TOKEN_SEPARATORS
         THEN <<current>> \o SplitFrom(Tail(s), <<>>)
         ELSE SplitFrom(Tail(s), current \o <<Head(s)>>)

\* A split that drops the empty pieces, as str.split() does.
ReSplitDropEmpty(s) == SelectSeq(SplitFrom(s, <<>>), LAMBDA t : t # <<>>)

ReSplit(s) == SplitFrom(s, <<>>)

\* re.findall(TOKEN_REGEX, s): each separator character, as a string.
RECURSIVE ReFindall(_)
ReFindall(s) ==
    IF s = <<>> THEN <<>>
    ELSE IF Head(s) \in TOKEN_SEPARATORS
         THEN <<<<Head(s)>>>> \o ReFindall(Tail(s))
         ELSE ReFindall(Tail(s))

(***************************************************************************)
(* The cache's lookup (CuneiformCacheBase).                                *)
(***************************************************************************)
\* The in-memory dict: a function from keys (str) to glyph bytes.
EmptyMap == [k \in {} |-> <<>>]

\* dict.update(stored)
Update(m, stored) ==
    [k \in (DOMAIN m) \cup (DOMAIN stored) |->
        IF k \in DOMAIN stored THEN stored[k] ELSE m[k]]

\* The outcome of a call: a returned value or a raised exception, with the
\* keys the dict was consulted for.
Return(v, looked) ==
    [kind |-> "return", value |-> v, exc |-> "", arg |-> <<>>,
     looked |-> looked]

Raise(e, a, looked) ==
    [kind |-> "raise", value |-> <<>>, exc |-> e, arg |-> a,
     looked |-> looked]

\* A lookup that hands an unknown key back instead of raising.
get_cuneiform_bytes_echo(m, transliteration) ==
    IF transliteration = <<>> THEN Return(<<>>, <<>>)
    ELSE IF transliteration \notin DOMAIN m
         THEN Return(transliteration, <<transliteration>>)
         ELSE Return(m[transliteration], <<transliteration>>)

\* _get_cuneiform_bytes
get_cuneiform_bytes(m, transliteration) ==
    IF transliteration = <<>> THEN Return(<<>>, <<>>)
    ELSE IF transliteration \notin DOMAIN m
         THEN Raise("UnrecognisedSymbol", transliteration,
                    <<transliteration>>)
         ELSE Return(m[transliteration], <<transliteration>>)

\* _characters_to_strip_and_place_at_start / _at_end
StartChars == {Chr.lbracket}
EndChars == {Chr.bang, Chr.qmark, Chr.rbracket}

\* The characters of s that are in chars, in order.
RECURSIVE Keep(_, _)
Keep(s, chars) ==
    IF s = <<>> THEN <<>>
    ELSE IF Head(s) \in chars
         THEN <<Head(s)>> \o Keep(Tail(s), chars)
         ELSE Keep(Tail(s), chars)

\* get_stripped_transliteration: every marker character removed.
get_stripped_transliteration(transliteration) ==
    LET all == {transliteration[i] : i \in 1..Len(transliteration)}
    IN Keep(transliteration, all \ (StartChars \cup EndChars))

\* A pass-through test that lets any token holding an x through.
should_pass_through_any_x(transliteration) ==
    \/ Chr.x \in LowerCaseCharacters(transliteration)
    \/ transliteration \in
           {<<Chr.qmark>>, <<Chr.bang>>, <<Chr.lbracket>>, <<Chr.rbracket>>}

\* _should_pass_through
should_pass_through(transliteration) ==
    \/ LowerCaseCharacters(transliteration) = {Chr.x}
    \/ transliteration \in
           {<<Chr.qmark>>, <<Chr.bang>>, <<Chr.lbracket>>, <<Chr.rbracket>>}

\* A reattachment that puts every marker after the glyphs.
wrap_cuneiform_markers_last(transliteration, include_extra_chars, looked_up) ==
    LET start == Keep(transliteration, StartChars)
        end == Keep(transliteration, EndChars)
    IN IF looked_up.kind = "raise" THEN looked_up
       ELSE LET cuneiform == Decode(looked_up.value) IN
            IF ~include_extra_chars
            THEN Return(cuneiform, looked_up.looked)
            ELSE Return(cuneiform \o start \o end, looked_up.looked)

\* get_cuneiform, given the outcome of _get_cuneiform_bytes on the stripped
\* transliteration.
wrap_cuneiform(transliteration, include_extra_chars, looked_up) ==
    LET start == Keep(transliteration, StartChars)
        end == Keep(transliteration, EndChars)
    IN IF looked_up.kind = "raise" THEN looked_up
       ELSE LET cuneiform == Decode(looked_up.value) IN
            IF ~include_extra_chars
            THEN Return(cuneiform, looked_up.looked)
            ELSE Return(start \o cuneiform \o end, looked_up.looked)

\* get_cuneiform on the closed/offline cache of the source.
get_cuneiform(m, transliteration, include_extra_chars) ==
    IF should_pass_through(transliteration)
    THEN Return(transliteration, <<>>)
    ELSE wrap_cuneiform(transliteration, include_extra_chars,
             get_cuneiform_bytes(m,
                 get_stripped_transliteration(transliteration)))

(***************************************************************************)
(* Line renderer.                                                          *)
(***************************************************************************)
\* The exceptions cuneify_line_structured catches per token.
Unresolved(r) ==
    r.kind = "raise"
    /\ r.exc \in {"UnrecognisedSymbol", "TransliterationNotUnderstood"}

\* The loop of cuneify_line_structured: one symbol per token, None (here
\* the empty tuple, a symbol being a one-element tuple) for a token whose
\* lookup failed.
RECURSIVE SymbolsOf(_, _)
SymbolsOf(m, tokens) ==
    IF tokens = <<>> THEN <<>>
    ELSE LET r == get_cuneiform(m, Head(tokens), TRUE)
         IN <<IF Unresolved(r) THEN <<>> ELSE <<r.value>>>>
            \o SymbolsOf(m, Tail(tokens))

\* The tokens at the positions where symbols holds None, in order.
RECURSIVE UnrecognizedOf(_, _)
UnrecognizedOf(tokens, symbols) ==
    IF tokens = <<>> THEN <<>>
    ELSE (IF Head(symbols) = <<>> THEN <<Head(tokens)>> ELSE <<>>)
         \o UnrecognizedOf(Tail(tokens), Tail(symbols))

\* Whether a lookup raises an exception the loop does not catch.
RECURSIVE Propagates(_, _)
Propagates(m, tokens) ==
    IF tokens = <<>> THEN FALSE
    ELSE LET r == get_cuneiform(m, Head(tokens), TRUE)
         IN (r.kind = "raise" /\ ~Unresolved(r))
            \/ Propagates(m, Tail(tokens))

\* cuneify_line_structured: (tokens, separators, symbols, unrecognized_tokens)
cuneify_line_structured(m, transliteration) ==
    LET stripped == Strip(transliteration)
        tokens == ReSplit(stripped)
        separators == ReFindall(stripped) \o << <<>> >>
        symbols == SymbolsOf(m, tokens)
    IN [ kind |-> IF Propagates(m, tokens) THEN "raise" ELSE "return",
         tokens |-> tokens,
         separators |-> separators,
         symbols |-> symbols,
         unrecognized_tokens |-> UnrecognizedOf(tokens, symbols) ]

\* A substitution that puts the indicator in even when it is empty.
RECURSIVE SubstituteIndicatorOnly(_, _, _)
SubstituteIndicatorOnly(tokens, raw_symbols, unrecognized_indicator) ==
    IF tokens = <<>> \/ raw_symbols = <<>> THEN <<>>
    ELSE << IF Head(raw_symbols) # <<>> THEN Head(raw_symbols)[1]
            ELSE unrecognized_indicator >>
         \o SubstituteIndicatorOnly(Tail(tokens), Tail(raw_symbols),
                                    unrecognized_indicator)

\* s if s is not None else t if unrecognized_indicator == "" else
\* unrecognized_indicator, over zip(tokens, raw_symbols)
RECURSIVE Substitute(_, _, _)
Substitute(tokens, raw_symbols, unrecognized_indicator) ==
    IF tokens = <<>> \/ raw_symbols = <<>> THEN <<>>
    ELSE << IF Head(raw_symbols) # <<>> THEN Head(raw_symbols)[1]
            ELSE IF unrecognized_indicator = <<>> THEN Head(tokens)
            ELSE unrecognized_indicator >>
         \o Substitute(Tail(tokens), Tail(raw_symbols),
                       unrecognized_indicator)

\* An alignment whose columns are as wide as the original segment only.
RECURSIVE AlignedTokenWidth(_, _, _)
AlignedTokenWidth(tokens, separators, symbols) ==
    IF tokens = <<>> \/ separators = <<>> \/ symbols = <<>>
    THEN [original |-> <<>>, cuneiform |-> <<>>]
    ELSE LET segment == Head(tokens) \o Head(separators)
             rest == AlignedTokenWidth(Tail(tokens), Tail(separators),
                                       Tail(symbols))
         IN [ original |-> segment \o rest.original,
              cuneiform |-> LJust(Head(symbols), Len(segment))
                            \o rest.cuneiform ]

\* The aligned lines of cuneify_line: [original, cuneiform], column by column
\* over zip(tokens, separators, symbols).
RECURSIVE Aligned(_, _, _)
Aligned(tokens, separators, symbols) ==
    IF tokens = <<>> \/ separators = <<>> \/ symbols = <<>>
    THEN [original |-> <<>>, cuneiform |-> <<>>]
    ELSE LET segment == Head(tokens) \o Head(separators)
             symbol == Head(symbols)
             width == IF Len(segment) >= Len(symbol)
                      THEN Len(segment) ELSE Len(symbol)
             rest == Aligned(Tail(tokens), Tail(separators), Tail(symbols))
         IN [ original |-> LJust(segment, width) \o rest.original,
              cuneiform |-> LJust(symbol, width) \o rest.cuneiform ]

\* cuneify_line: the structured data, with the rendered text.
cuneify_line(m, transliteration, show_transliteration, unrecognized_indicator) ==
    LET structured == cuneify_line_structured(m, transliteration)
        symbols == Substitute(structured.tokens, structured.symbols,
                              unrecognized_indicator)
        lines == Aligned(structured.tokens, structured.separators, symbols)
    IN [ kind |-> structured.kind,
         tokens |-> structured.tokens,
         separators |-> structured.separators,
         symbols |-> structured.symbols,
         unrecognized_tokens |-> structured.unrecognized_tokens,
         text |-> IF structured.kind = "raise" THEN <<>>
                  ELSE IF show_transliteration
                  THEN lines.original \o <<10>> \o lines.cuneiform
                  ELSE Join(<<Chr.space>>, symbols) ]

(***************************************************************************)
(* Document renderer (cuneify_iterator over the lines of a file).          *)
(***************************************************************************)
\* Iterating an open text file: its lines, each with its "\n", the last one
\* without when the file does not end in one.
RECURSIVE FileLines(_, _)
FileLines(content, current) ==
    IF content = <<>>
    THEN (IF current = <<>> THEN <<>> ELSE <<current>>)
    ELSE IF Head(content) = Chr.newline
         THEN <<current \o <<Chr.newline>>>> \o FileLines(Tail(content), <<>>)
         ELSE FileLines(Tail(content), current \o <<Head(content)>>)

\* The length of the longest prefix of s made of characters of class.
RECURSIVE Span(_, _)
Span(s, class) ==
    IF s # <<>> /\ Head(s) \in class THEN 1 + Span(Tail(s), class) ELSE 0

\* The length of the longest prefix of s that ".*" matches: "." matches
\* everything but a newline.
RECURSIVE Dots(_)
Dots(s) ==
    IF s # <<>> /\ Head(s) # Chr.newline THEN 1 + Dots(Tail(s)) ELSE 0

\* [0-9]
Digits == 48..57

\* re.search('^([0-9]+\.)([ \t]*)(.*)', line): whether it matches, and
\* groups 2 and 3 ("." does not match a newline).
AtfLineParts(atf_line) ==
    LET digits == Span(atf_line, Digits)
        after_number == From(atf_line, digits + 2)
        blanks == Span(after_number, {Chr.space, Chr.tab})
        after_blanks == From(after_number, blanks + 1)
        rest == Dots(after_blanks)
    IN [ matches |-> /\ digits >= 1
                     /\ Len(atf_line) > digits
                     /\ atf_line[digits + 1] = Chr.dot,
         group2 |-> SubSeq(after_number, 1, blanks),
         group3 |-> SubSeq(after_blanks, 1, rest) ]

\* What one pass of the loops of cuneify_iterator adds to the output, given
\* the match of the line, the rendering of its transliteration and the
\* outcome of the passes over the lines after it.
IteratorPass(atf_line, atf_line_parts, rendered, rest, show_transliteration, parse_atf) ==
    [ kind |-> IF (~parse_atf \/ atf_line_parts.matches)
                  /\ rendered.kind = "raise"
               THEN "raise" ELSE rest.kind,
      output |->
          (IF parse_atf
           THEN atf_line
                \o (IF atf_line_parts.matches
                    THEN <<Chr.hash>> \o atf_line_parts.group2
                         \o rendered.text \o <<Chr.newline>>
                    ELSE <<>>)
           ELSE rendered.text \o <<Chr.newline>>
                \o (IF show_transliteration THEN <<Chr.newline>> ELSE <<>>))
          \o rest.output ]

\* cuneify_iterator: the output string built over the lines.
RECURSIVE cuneify_iterator(_, _, _, _)
cuneify_iterator(m, lines, show_transliteration, parse_atf) ==
    IF lines = <<>> THEN [kind |-> "return", output |-> <<>>]
    ELSE IteratorPass(
             Head(lines),
             AtfLineParts(Head(lines)),
             cuneify_line(m,
                          IF parse_atf THEN AtfLineParts(Head(lines)).group3
                          ELSE Head(lines),
                          show_transliteration, <<Chr.qmark>>),
             cuneify_iterator(m, Tail(lines), show_transliteration,
                              parse_atf),
             show_transliteration, parse_atf)

\* cuneify_file: cuneify_iterator over the lines of the opened file.
cuneify_file(m, content, show_transliteration, parse_atf) ==
    cuneify_iterator(m, FileLines(content, <<>>), show_transliteration,
                     parse_atf)

(***************************************************************************)
(* Sign list (ordered_symbol_to_transliterations).                         *)
(***************************************************************************)
\* str.split(): the pieces between runs of whitespace, none of them empty.
RECURSIVE SplitWords(_, _)
SplitWords(s, current) ==
    IF s = <<>> THEN (IF current = <<>> THEN <<>> ELSE <<current>>)
    ELSE IF Head(s) \in Whitespace
         THEN (IF current = <<>> THEN <<>> ELSE <<current>>)
              \o SplitWords(Tail(s), <<>>)
         ELSE SplitWords(Tail(s), current \o <<Head(s)>>)

\* sum((list(re.split(TOKEN_REGEX, line.strip())) for line in words), [])
RECURSIVE TokensOfWords(_)
TokensOfWords(words) ==
    IF words = <<>> THEN <<>>
    ELSE ReSplit(Strip(Head(words))) \o TokensOfWords(Tail(words))

\* The position of key among the keys of an OrderedDict held as a sequence
\* of <<key, value>> pairs, 0 when it is not a key.
KeyIndex(result, key) ==
    IF \E i \in 1..Len(result) : result[i][1] = key
    THEN CHOOSE i \in 1..Len(result) : result[i][1] = key
    ELSE 0

\* An insertion that lists a token every time it is seen.
AddTokenEveryTime(result, cuneiform_symbol, token) ==
    LET with_key == IF KeyIndex(result, cuneiform_symbol) = 0
                    THEN Append(result, <<cuneiform_symbol, <<>>>>)
                    ELSE result
        i == KeyIndex(with_key, cuneiform_symbol)
    IN [with_key EXCEPT ![i] = <<cuneiform_symbol, Append(with_key[i][2], token)>>]

\* if cuneiform_symbol not in result: result[cuneiform_symbol] = []
\* if token not in result[cuneiform_symbol]: append it
AddToken(result, cuneiform_symbol, token) ==
    LET with_key == IF KeyIndex(result, cuneiform_symbol) = 0
                    THEN Append(result, <<cuneiform_symbol, <<>>>>)
                    ELSE result
        i == KeyIndex(with_key, cuneiform_symbol)
        listed == with_key[i][2]
    IN IF \E k \in 1..Len(listed) : listed[k] = token
       THEN with_key
       ELSE [with_key EXCEPT ![i] = <<cuneiform_symbol, Append(listed, token)>>]

\* The loop of ordered_symbol_to_transliterations over the tokens.
RECURSIVE BuildSymbolList(_, _, _, _, _)
BuildSymbolList(m, tokens, return_unrecognised, result, unrecognised) ==
    IF tokens = <<>>
    THEN [ kind |-> "return", exc |-> "", arg |-> <<>>,
           value |-> [result |-> result, unrecognised |-> unrecognised] ]
    ELSE LET token == get_stripped_transliteration(Head(tokens))
             r == get_cuneiform(m, token, TRUE)
         IN IF r.kind = "raise"
            THEN (IF Unresolved(r) /\ return_unrecognised
                  THEN BuildSymbolList(m, Tail(tokens), return_unrecognised,
                                       result, unrecognised \cup {token})
                  ELSE [ kind |-> "raise", exc |-> r.exc, arg |-> r.arg,
                         value |-> [result |-> <<>>, unrecognised |-> {}] ])
            ELSE BuildSymbolList(m, Tail(tokens), return_unrecognised,
                                 AddToken(result, r.value, token),
                                 unrecognised)

\* ordered_symbol_to_transliterations
ordered_symbol_to_transliterations(m, transliteration, return_unrecognised) ==
    BuildSymbolList(m, TokensOfWords(SplitWords(transliteration, <<>>)),
                    return_unrecognised, <<>>, {})

(***************************************************************************)
(* The file-backed cache (FileCuneiformCache) and its backing store.       *)
(***************************************************************************)
\* Number of distinct glyphs the stored entries and the remote service use.
NGlyphs == 2

\* The UTF-8 bytes of the cuneiform sign U+12000 + k.
GlyphBytes(k) == <<240, 146, 128, 128 + k>>

GlyphValues == {GlyphBytes(k) : k \in 0..(NGlyphs - 1)}

\* The backing file: absent, a pickle of a dict, a file on which pickle.load
\* raises EOFError (empty or cut short), or a file on which it raises
\* another error (UnpicklingError on bytes that are not a pickle).
Absent == [state |-> "absent", data |-> EmptyMap]
Pickled(m) == [state |-> "ok", data |-> m]
CutShort == [state |-> "eof", data |-> EmptyMap]
Malformed == [state |-> "malformed", data |-> EmptyMap]

\* _load_cache_file on a well-formed file.
load_cache_file(m, f) == Update(m, f.data)

\* An __enter__ that treats every failure of pickle.load as corruption.
enter_catch_all(m, f) ==
    IF f.state = "absent"
    THEN [m |-> m, file |-> f, kind |-> "self", exc |-> ""]
    ELSE IF f.state = "ok"
    THEN [m |-> load_cache_file(m, f), file |-> f, kind |-> "self",
          exc |-> ""]
    ELSE [m |-> m, file |-> Absent, kind |-> "self", exc |-> ""]

\* __enter__: the dict, the file and the outcome (self, or the exception of
\* pickle.load that is not EOFError).
enter(m, f) ==
    IF f.state = "absent"
    THEN [m |-> m, file |-> f, kind |-> "self", exc |-> ""]
    ELSE IF f.state = "ok"
    THEN [m |-> load_cache_file(m, f), file |-> f, kind |-> "self",
          exc |-> ""]
    ELSE IF f.state = "eof"
    THEN [m |-> m, file |-> Absent, kind |-> "self", exc |-> ""]
    ELSE [m |-> m, file |-> f, kind |-> "raise", exc |-> "UnpicklingError"]

\* A write that leaves the dirty flag set.
write_cache_file_keeps_flag(m, f, modified, ro) ==
    IF ro
    THEN [file |-> f, modified |-> modified, wrote |-> FALSE]
    ELSE [file |-> Pickled(m), modified |-> modified, wrote |-> TRUE]

\* A write that clears the dirty flag without dumping the dict.
write_cache_file_no_dump(m, f, modified, ro) ==
    IF ro
    THEN [file |-> f, modified |-> modified, wrote |-> FALSE]
    ELSE [file |-> f, modified |-> FALSE, wrote |-> FALSE]

\* _write_cache_file
write_cache_file(m, f, modified, ro) ==
    IF ro
    THEN [file |-> f, modified |-> modified, wrote |-> FALSE]
    ELSE [file |-> Pickled(m), modified |-> FALSE, wrote |-> TRUE]

\* __exit__
exit(m, f, modified, ro) ==
    IF modified
    THEN write_cache_file(m, f, modified, ro)
    ELSE [file |-> f, modified |-> modified, wrote |-> FALSE]

\* An __exit__ that returns a true value.
exit_swallows == TRUE

\* What __exit__ returns: None, so a propagating exception is not swallowed.
exit_suppresses == FALSE

(***************************************************************************)
(* The fetch-augmented lookup.  The source under study holds the           *)
(* closed/offline _get_cuneiform_bytes only; the fetching variant follows  *)
(* the specification's description of it.                                  *)
(***************************************************************************)
\* The keys the remote service can resolve.
RemoteKnows == {<<Chr.a>>, <<Chr.x>>}

\* What the remote service may answer for a key: glyph bytes, "not
\* understood", or a result that still holds plain text.
RemoteOutcomes(key) ==
    (IF key \in RemoteKnows
     THEN {[kind |-> "glyphs", bytes |-> g] : g \in GlyphValues}
     ELSE {})
    \cup {[kind |-> "not_understood", bytes |-> <<>>],
          [kind |-> "plain_text", bytes |-> <<>>]}

\* The answers to draw from when a cache looks a key up: the remote
\* service is asked only by a fetching cache, for a non-empty key its dict
\* lacks.
Answers(m, key, fetch) ==
    IF fetch /\ key # <<>> /\ key \notin DOMAIN m
    THEN RemoteOutcomes(key)
    ELSE {[kind |-> "not_asked", bytes |-> <<>>]}

\* A lookup's outcome together with the dict after it, whether the dict was
\* marked modified and whether the remote service was called.
Unmodified(m, r) ==
    [r |-> r, m |-> m, dirtied |-> FALSE, remote |-> FALSE]

fetching_get_cuneiform_bytes(m, transliteration, outcome) ==
    IF transliteration = <<>> \/ transliteration \in DOMAIN m
    THEN Unmodified(m, get_cuneiform_bytes(m, transliteration))
    ELSE IF outcome.kind = "glyphs"
    THEN [ r |-> Return(outcome.bytes, <<transliteration>>),
           m |-> Update(m, [k \in {transliteration} |-> outcome.bytes]),
           dirtied |-> TRUE, remote |-> TRUE ]
    ELSE [ r |-> Raise(IF outcome.kind = "not_understood"
                       THEN "TransliterationNotUnderstood"
                       ELSE "UnrecognisedSymbol",
                       transliteration, <<transliteration>>),
           m |-> m, dirtied |-> FALSE, remote |-> TRUE ]

\* The lookup of a cache under its policy.
lookup(m, transliteration, fetch, outcome) ==
    IF fetch
    THEN fetching_get_cuneiform_bytes(m, transliteration, outcome)
    ELSE Unmodified(m, get_cuneiform_bytes(m, transliteration))

\* get_cuneiform of a cache under its policy.
cache_get_cuneiform(m, transliteration, include_extra_chars, fetch, outcome) ==
    IF ~fetch
    THEN Unmodified(m, get_cuneiform(m, transliteration,
                                     include_extra_chars))
    ELSE IF should_pass_through(transliteration)
    THEN Unmodified(m, Return(transliteration, <<>>))
    ELSE LET step == fetching_get_cuneiform_bytes(m,
                         get_stripped_transliteration(transliteration),
                         outcome)
         IN [step EXCEPT !.r = wrap_cuneiform(transliteration,
                                              include_extra_chars, step.r)]

(***************************************************************************)
(* State.                                                                  *)
(***************************************************************************)
VARIABLES
    cache_file,                   \* the backing store at _cache_file_path
    transliteration_to_cuneiform, \* the cache's dict
    cache_modified,               \* _cache_modified, the dirty flag
    read_only,                    \* _read_only
    fetching,                     \* whether the cache fetches absent keys
    pc,                           \* where the caller's with statement is
    pending,                      \* the exception leaving the with body
    propagated,                   \* the exception the with statement raised
    exits,                        \* __exit__ calls on this cache so far
    fetched,                      \* entries fetched in this scope
    expect,                       \* entries fetched in the last closed scope
    expect_writable,              \* whether that scope's cache was writable
    res,                          \* the last call on the cache, its outcome
    input,                        \* the text the text functions are given
    line                          \* the last line rendered, its outcome

vars ==
    <<cache_file, transliteration_to_cuneiform, cache_modified, read_only,
      fetching, pc, pending, propagated, exits, fetched, expect,
      expect_writable, res, input, line>>

cache == <<transliteration_to_cuneiform, cache_modified, read_only, fetching>>
scope == <<pc, pending, propagated, exits>>
history == <<fetched, expect, expect_writable>>

\* Most explicit close() calls made on one cache after its scope was left.
MaxCloses == 3

\* The record of a call.
Call(op, arg, include, r, remote, wrote) ==
    [ op |-> op, arg |-> arg, include |-> include, kind |-> r.kind,
      value |-> r.value, exc |-> r.exc, excarg |-> r.arg,
      looked |-> r.looked, remote |-> remote, wrote |-> wrote ]

Plain(kind, exc) ==
    [kind |-> kind, value |-> <<>>, exc |-> exc, arg |-> <<>>,
     looked |-> <<>>]

NoCall == Call("none", <<>>, FALSE, Plain("return", ""), FALSE, FALSE)

NoLine ==
    [ op |-> "none", input |-> <<>>, show |-> FALSE, indicator |-> <<>>,
      kind |-> "return", tokens |-> <<>>, separators |-> <<>>,
      symbols |-> <<>>, unrecognized_tokens |-> <<>>, text |-> <<>> ]

(***************************************************************************)
(* Inputs.                                                                 *)
(***************************************************************************)
\* All strings over an alphabet up to a length.
RECURSIVE Strings(_, _)
Strings(alphabet, n) ==
    IF n = 0 THEN {<<>>}
    ELSE LET shorter == Strings(alphabet, n - 1)
         IN shorter \cup {Append(s, c) : s \in shorter, c \in alphabet}

\* The dicts a backing file may hold when the program starts.
StoredMaps ==
    UNION {[keys -> GlyphValues] : keys \in SUBSET RemoteKnows}

InitialFiles == {Absent, CutShort, Malformed} \cup {Pickled(m) : m \in StoredMaps}

\* Keys looked up directly, and tokens handed to get_cuneiform, in the
\* lifecycle specification.
LookupKeys == {<<>>, <<Chr.a>>, <<Chr.x>>, <<Chr.b>>}

CacheTokens ==
    { <<>>, <<Chr.a>>, <<Chr.x>>, <<Chr.X>>, <<Chr.X, Chr.x>>,
      <<Chr.qmark>>, <<Chr.bang>>, <<Chr.lbracket>>, <<Chr.rbracket>>,
      <<Chr.lbracket, Chr.a, Chr.rbracket>>, <<Chr.x, Chr.qmark>>,
      <<Chr.lbracket, Chr.X>>, <<Chr.b, Chr.bang>>,
      <<Chr.qmark, Chr.bang>> }

(***************************************************************************)
(* The cache's lifecycle: FileCuneiformCache used in a with statement.     *)
(***************************************************************************)
Init ==
    /\ cache_file \in InitialFiles
    /\ transliteration_to_cuneiform = EmptyMap
    /\ cache_modified = FALSE
    /\ read_only \in BOOLEAN
    /\ fetching \in BOOLEAN
    /\ pc = "constructed"
    /\ pending = ""
    /\ propagated = ""
    /\ exits = 0
    /\ fetched = EmptyMap
    /\ expect = EmptyMap
    /\ expect_writable = TRUE
    /\ res = NoCall
    /\ input = <<>>
    /\ line = NoLine

\* FileCuneiformCache(cache_file_path, read_only): a fresh cache, once the
\* previous with statement is over.
New(ro, fetch) ==
    /\ pc \in {"left", "failed"}
    /\ transliteration_to_cuneiform' = EmptyMap
    /\ cache_modified' = FALSE
    /\ read_only' = ro
    /\ fetching' = fetch
    /\ pc' = "constructed"
    /\ pending' = ""
    /\ propagated' = ""
    /\ exits' = 0
    /\ fetched' = EmptyMap
    /\ res' = Call("new", <<>>, FALSE, Plain("return", ""), FALSE, FALSE)
    /\ UNCHANGED <<cache_file, expect, expect_writable, input, line>>

\* with ... as cache: __enter__ runs; if it raises, the body and __exit__
\* do not run and the exception propagates.
Enter ==
    /\ pc = "constructed"
    /\ LET e == enter(transliteration_to_cuneiform, cache_file)
       IN /\ transliteration_to_cuneiform' = e.m
          /\ cache_file' = e.file
          /\ pc' = IF e.kind = "raise" THEN "failed" ELSE "body"
          /\ propagated' = e.exc
          /\ res' = Call("enter", <<>>, FALSE, Plain(e.kind, e.exc), FALSE,
                         FALSE)
    /\ UNCHANGED <<cache_modified, read_only, fetching, pending, exits,
                   history, input, line>>

\* The effect of a lookup step on the cache and on the record of fetches.
Looked(op, arg, include, step) ==
    /\ transliteration_to_cuneiform' = step.m
    /\ cache_modified' = (cache_modified \/ step.dirtied)
    /\ fetched' =
          IF step.dirtied
          THEN Update(fetched,
                      [k \in {step.r.looked[1]} |-> step.m[step.r.looked[1]]])
          ELSE fetched
    /\ res' = Call(op, arg, include, step.r, step.remote, FALSE)
    /\ UNCHANGED <<cache_file, read_only, fetching, scope, expect,
                   expect_writable, input, line>>

\* In the body: cache._get_cuneiform_bytes(key)
Lookup(key) ==
    /\ pc = "body"
    /\ \E outcome \in Answers(transliteration_to_cuneiform, key, fetching) :
          Looked("lookup", key, FALSE,
                 lookup(transliteration_to_cuneiform, key, fetching, outcome))

\* In the body: cache.get_cuneiform(token, include_extra_chars)
GetCuneiform(token, include) ==
    /\ pc = "body"
    /\ \E outcome \in
             Answers(transliteration_to_cuneiform,
                     get_stripped_transliteration(token),
                     fetching /\ ~should_pass_through(token)) :
          Looked("get_cuneiform", token, include,
                 cache_get_cuneiform(transliteration_to_cuneiform, token,
                                     include, fetching, outcome))

\* The body of the with statement ends normally.
BodyReturn ==
    /\ pc = "body"
    /\ pc' = "exiting"
    /\ pending' = ""
    /\ UNCHANGED <<cache_file, cache, propagated, exits, history, res, input,
                   line>>

\* An exception leaves the body of the with statement (the input file of
\* main cannot be opened, say).
BodyRaise ==
    /\ pc = "body"
    /\ pc' = "exiting"
    /\ pending' = "Error"
    /\ UNCHANGED <<cache_file, cache, propagated, exits, history, res, input,
                   line>>

\* The effect of one __exit__ call on the cache and the backing file.
Exited(op) ==
    LET e == exit(transliteration_to_cuneiform, cache_file, cache_modified,
                  read_only)
    IN /\ cache_file' = e.file
       /\ cache_modified' = e.modified
       /\ exits' = exits + 1
       /\ res' = Call(op, <<>>, FALSE, Plain("return", ""), FALSE, e.wrote)
       /\ UNCHANGED <<transliteration_to_cuneiform, read_only, fetching,
                      fetched, input, line>>

\* The with statement calls __exit__ on the way out, and re-raises the
\* pending exception unless __exit__ returned a true value.
Exit ==
    /\ pc = "exiting"
    /\ Exited("exit")
    /\ pc' = "left"
    /\ propagated' = IF exit_suppresses THEN "" ELSE pending
    /\ pending' = ""
    /\ expect' = fetched
    /\ expect_writable' = ~read_only

\* A further explicit close() on a cache whose scope was left.
CloseAgain ==
    /\ pc = "left"
    /\ exits < MaxCloses
    /\ Exited("close")
    /\ UNCHANGED <<pc, pending, propagated, expect, expect_writable>>

Next ==
    \/ \E ro \in BOOLEAN, fetch \in BOOLEAN : New(ro, fetch)
    \/ Enter
    \/ \E key \in LookupKeys : Lookup(key)
    \/ \E token \in CacheTokens, include \in BOOLEAN :
          GetCuneiform(token, include)
    \/ BodyReturn
    \/ BodyRaise
    \/ Exit
    \/ CloseAgain

Spec == Init /\ [][Next]_vars

(***************************************************************************)
(* The text functions on their own: get_cuneiform, the tokenizer and the   *)
(* line renderer applied to every bounded input, on an open offline cache. *)
(***************************************************************************)
\* The characters of the tokens handed to get_cuneiform.
TokenAlphabet ==
    { Chr.a, Chr.x, Chr.X, Chr.lbracket, Chr.rbracket, Chr.bang, Chr.qmark,
      Chr.sqrt, Chr.degree, Chr.A, Chr.two }

\* The characters of the lines handed to the tokenizer and the renderer.
LineAlphabet ==
    { Chr.a, Chr.b, Chr.x, Chr.hyphen, Chr.space, Chr.dot, Chr.tab,
      Chr.qmark }

Tokens == Strings(TokenAlphabet, MaxTokenLen)
Lines == Strings(LineAlphabet, MaxLineLen)

\* The values of unrecognized_indicator: the default "?" and "".
Indicators == {<<Chr.qmark>>, <<>>}

\* All concatenations of up to n of the given pieces.
RECURSIVE Concatenations(_, _)
Concatenations(pieces, n) ==
    IF n = 0 THEN {<<>>}
    ELSE LET shorter == Concatenations(pieces, n - 1)
         IN shorter \cup {s \o piece : s \in shorter, piece \in pieces}

\* The tokens handed to _remove_abbreviations: plain letters and digits,
\* the accented vowels, the keys ACUTE_VOWELS and GRAVE_VOWELS hold for
\* them, and the separators.
NormPieces ==
    { <<Chr.a>>, <<Chr.l, Chr.u>>, <<Chr.two>>, <<Chr.aacute>>,
      <<Chr.agrave>>, <<Chr.sqrt, Chr.degree>>, <<Chr.sqrt, Chr.dagger>>,
      <<Chr.hyphen>>, <<Chr.space>>, <<Chr.dot>> }

NormTokens == Concatenations(NormPieces, MaxTokenLen)

\* The texts handed to ordered_symbol_to_transliterations.
IndexPieces ==
    { <<Chr.a, Chr.space>>, <<Chr.b, Chr.newline>>, <<Chr.a, Chr.hyphen>>,
      <<Chr.b>>, <<Chr.lbracket, Chr.a, Chr.rbracket>>, <<Chr.a, Chr.a>>,
      <<Chr.space, Chr.qmark>> }

IndexTexts == Concatenations(IndexPieces, MaxWords)

\* The contents of the files handed to cuneify_file: lines with and without
\* a line number, the last one with or without its newline.
DocPieces ==
    { <<Chr.one, Chr.dot, Chr.a, Chr.newline>>,
      <<Chr.one, Chr.dot, Chr.space, Chr.a, Chr.hyphen, Chr.b, Chr.newline>>,
      <<Chr.one, Chr.one, Chr.dot, Chr.tab, Chr.space, Chr.newline>>,
      <<Chr.a, Chr.newline>>,
      <<Chr.hash, Chr.one, Chr.dot, Chr.a, Chr.newline>>,
      <<Chr.one, Chr.a, Chr.dot, Chr.newline>>,
      <<Chr.newline>>,
      <<Chr.one, Chr.dot, Chr.a>>,
      <<Chr.a>> }

Documents == Concatenations(DocPieces, MaxDocLines)

\* The contents of the cache the text functions run on.
SampleMaps ==
    { EmptyMap,
      (<<Chr.a>> :> GlyphBytes(0)) @@ (<<Chr.x>> :> GlyphBytes(1))
          @@ (<<Chr.A, Chr.two>> :> GlyphBytes(1)),
      (<<Chr.a>> :> (GlyphBytes(0) \o GlyphBytes(1)))
          @@ (<<Chr.sqrt, Chr.degree>> :> GlyphBytes(0))
          @@ (<<Chr.a, Chr.a>> :> GlyphBytes(1)),
      (<<Chr.a>> :> GlyphBytes(0)) @@ (<<Chr.b>> :> GlyphBytes(0)) }

InitText ==
    /\ cache_file = Absent
    /\ transliteration_to_cuneiform \in SampleMaps
    /\ cache_modified = FALSE
    /\ read_only = FALSE
    /\ fetching = FALSE
    /\ pc = "body"
    /\ pending = ""
    /\ propagated = ""
    /\ exits = 0
    /\ fetched = EmptyMap
    /\ expect = EmptyMap
    /\ expect_writable = TRUE
    /\ res = NoCall
    /\ input \in Tokens \cup Lines \cup NormTokens \cup IndexTexts
                 \cup Documents
    /\ line = NoLine

\* No text function was applied to the input yet.
Fresh == res = NoCall /\ line = NoLine

\* cache.get_cuneiform(input, include_extra_chars)
TokenCall(include) ==
    /\ Fresh
    /\ input \in Tokens
    /\ res' = Call("get_cuneiform", input, include,
                   get_cuneiform(transliteration_to_cuneiform, input,
                                 include),
                   FALSE, FALSE)
    /\ UNCHANGED <<cache_file, cache, scope, history, input, line>>

\* The record of a rendering call.
Rendered(op, show, indicator, r, text) ==
    [ op |-> op, input |-> input, show |-> show, indicator |-> indicator,
      kind |-> r.kind, tokens |-> r.tokens, separators |-> r.separators,
      symbols |-> r.symbols,
      unrecognized_tokens |-> r.unrecognized_tokens, text |-> text ]

\* cuneify_line_structured(cache, input)
StructuredCall ==
    /\ Fresh
    /\ input \in Lines
    /\ line' = Rendered("cuneify_line_structured", FALSE, <<>>,
                        cuneify_line_structured(
                            transliteration_to_cuneiform, input),
                        <<>>)
    /\ UNCHANGED <<cache_file, cache, scope, history, res, input>>

\* cuneify_line(cache, input, show, indicator)
LineCall(show, indicator) ==
    /\ Fresh
    /\ input \in Lines
    /\ LET r == cuneify_line(transliteration_to_cuneiform, input, show,
                             indicator)
       IN line' = Rendered("cuneify_line", show, indicator, r, r.text)
    /\ UNCHANGED <<cache_file, cache, scope, history, res, input>>

\* The outcome of a call that looks nothing up, as Call records it.
Outcome(r, arg) ==
    [ kind |-> r.kind, value |-> r.value, exc |-> r.exc, arg |-> arg,
      looked |-> <<>> ]

\* The outcome of ordered_symbol_to_transliterations, as Call records it.
SymbolListOutcome(r) == Outcome(r, r.arg)

\* The outcome of cuneify_file: the output, with the lines the file was
\* read as and the mode.
FileOutcome(r, lines, parse_atf) ==
    [ kind |-> r.kind,
      value |-> [output |-> r.output, lines |-> lines,
                 parse_atf |-> parse_atf],
      exc |-> "" ]

\* _remove_abbreviations(input)
NormalizeCall ==
    /\ Fresh
    /\ input \in NormTokens
    /\ res' = Call("_remove_abbreviations", input, FALSE,
                   Outcome(remove_abbreviations(input), <<>>), FALSE, FALSE)
    /\ UNCHANGED <<cache_file, cache, scope, history, input, line>>

\* ordered_symbol_to_transliterations(cache, input, return_unrecognised)
SymbolListCall(return_unrecognised) ==
    /\ Fresh
    /\ input \in IndexTexts
    /\ res' = Call("ordered_symbol_to_transliterations", input,
                   return_unrecognised,
                   SymbolListOutcome(
                       ordered_symbol_to_transliterations(
                           transliteration_to_cuneiform, input,
                           return_unrecognised)),
                   FALSE, FALSE)
    /\ UNCHANGED <<cache_file, cache, scope, history, input, line>>

\* cuneify_file(cache, <file holding input>, show, parse_atf)
FileCall(show, parse_atf) ==
    /\ Fresh
    /\ input \in Documents
    /\ res' = Call("cuneify_file", input, show,
                   Outcome(FileOutcome(
                               cuneify_file(transliteration_to_cuneiform,
                                            input, show, parse_atf),
                               FileLines(input, <<>>), parse_atf),
                           <<>>),
                   FALSE, FALSE)
    /\ UNCHANGED <<cache_file, cache, scope, history, input, line>>

NextText ==
    \/ \E include \in BOOLEAN : TokenCall(include)
    \/ StructuredCall
    \/ \E show \in BOOLEAN, indicator \in Indicators :
          LineCall(show, indicator)
    \/ NormalizeCall
    \/ \E return_unrecognised \in BOOLEAN :
          SymbolListCall(return_unrecognised)
    \/ \E show \in BOOLEAN, parse_atf \in BOOLEAN :
          FileCall(show, parse_atf)

SpecText == InitText /\ [][NextText]_vars

(***************************************************************************)
(* Properties of the cache's lifecycle (under Spec).                       *)
(***************************************************************************)
\* A step that is one __exit__ call.
CloseStep == exits' = exits + 1

\* C1: close() writes the whole dict to the backing file, replacing what the
\* file held, exactly when the dirty flag is set and the cache is writable,
\* and such a write clears the flag; otherwise it changes neither the file
\* nor the flag.  So a close() that directly follows another close() writes
\* nothing and leaves the file as it is.
C1_CloseWritesIffDirtyAndWritable ==
    [][CloseStep =>
          LET should == cache_modified /\ ~read_only IN
          /\ res'.wrote <=> should
          /\ should =>
                /\ cache_file' = Pickled(transliteration_to_cuneiform)
                /\ ~cache_modified'
          /\ ~should =>
                /\ cache_file' = cache_file
                /\ cache_modified' = cache_modified
          /\ res.op \in {"exit", "close"} =>
                /\ ~res'.wrote
                /\ cache_file' = cache_file]_vars

\* C1 witness: a writable cache that fetched an entry was closed, which wrote
\* the file, and a further close() wrote nothing.
C1_Witness ==
    /\ res.op = "close"
    /\ ~res.wrote
    /\ ~read_only
    /\ fetched # EmptyMap
    /\ cache_file = Pickled(transliteration_to_cuneiform)

\* A lookup made in the body of the current scope for a key that the
\* previous scope fetched.
RefetchedKey ==
    /\ pc = "body"
    /\ res.op = "lookup"
    /\ res.arg \in DOMAIN expect

\* The lookup was served from the dict, with the glyphs fetched before.
ServedFromCache ==
    /\ res.kind = "return"
    /\ res.value = expect[res.arg]
    /\ ~res.remote

\* A lookup that has just fetched its key stored it and set the dirty flag.
FetchPopulates ==
    (pc = "body" /\ res.op = "lookup" /\ res.remote /\ res.kind = "return")
    => /\ res.arg \in DOMAIN transliteration_to_cuneiform
       /\ transliteration_to_cuneiform[res.arg] = res.value
       /\ cache_modified

\* C2 as stated: a key fetched in one scope is, after close() and a fresh
\* open() on the same backing file, served with the same glyphs and without
\* the remote service, whatever the cache's policy.
C2_RoundTrip ==
    /\ FetchPopulates
    /\ RefetchedKey => ServedFromCache

\* C2 amended: the same, for a key fetched by a writable cache.
C2_RoundTripWritable ==
    /\ FetchPopulates
    /\ (RefetchedKey /\ expect_writable) => ServedFromCache

\* C2 witness: a fetching cache serves, without the remote service, a key
\* that the previous, writable cache fetched and wrote at its close().
C2_Witness ==
    /\ RefetchedKey
    /\ expect_writable
    /\ fetching
    /\ ServedFromCache

\* A step that is one __enter__ call.
EnterStep == pc = "constructed" /\ pc' # "constructed"

\* __enter__ returned the cache and the body runs.
Opened == pc' = "body" /\ res'.kind = "self"

OfflineLookupStep ==
    pc = "body" /\ pc' = "body" /\ res'.op = "lookup" /\ ~fetching

\* C4: on an open offline cache lookup(key) returns the empty sequence for
\* the empty key, the stored glyphs for a key of the dict, and otherwise
\* raises UnrecognisedSymbol carrying the key; the dict and the dirty flag
\* stay as they were.
C4_OfflineLookup ==
    [][OfflineLookupStep =>
          LET key == res'.arg
              m == transliteration_to_cuneiform IN
          /\ key = <<>> => res'.kind = "return" /\ res'.value = <<>>
          /\ (key # <<>> /\ key \in DOMAIN m) =>
                res'.kind = "return" /\ res'.value = m[key]
          /\ (key # <<>> /\ key \notin DOMAIN m) =>
                /\ res'.kind = "raise"
                /\ res'.exc = "UnrecognisedSymbol"
                /\ res'.excarg = key
          /\ transliteration_to_cuneiform' = m
          /\ cache_modified' = cache_modified]_vars

\* C4 witness: an offline lookup of a key the dict lacks raised
\* UnrecognisedSymbol, with a non-empty dict.
C4_Witness ==
    /\ res.op = "lookup"
    /\ ~fetching
    /\ res.kind = "raise"
    /\ res.excarg = <<Chr.b>>
    /\ transliteration_to_cuneiform # EmptyMap

\* A step on which the with statement's scope is left.
LeavesScope ==
    pc \in {"body", "exiting"} /\ pc' \notin {"body", "exiting"}

\* C5: whenever the scope is left, normally or by an exception, __exit__ has
\* run exactly once, it wrote the dict to the backing file if the cache was
\* dirty and writable, and the exception that left the body propagates.
C5_ScopeReleased ==
    [][LeavesScope =>
          /\ exits = 0
          /\ exits' = 1
          /\ (cache_modified /\ ~read_only) =>
                /\ res'.wrote
                /\ cache_file' = Pickled(transliteration_to_cuneiform)
          /\ propagated' = pending]_vars

\* C5 witness: the body was left by an exception, __exit__ wrote the dirty
\* dict, and the exception propagated.
C5_Witness ==
    /\ pc = "left"
    /\ exits = 1
    /\ res.op = "exit"
    /\ res.wrote
    /\ propagated = "Error"

(***************************************************************************)
(* Properties of the token lookup, the tokenizer and the renderer.         *)
(***************************************************************************)
\* The marker characters of a token.
MarkerChars == {Chr.lbracket, Chr.rbracket, Chr.bang, Chr.qmark}

\* A token without its marker characters.
Unmarked(t) == SelectSeq(t, LAMBDA c : c \notin MarkerChars)

\* The tokens the specification lets through: x/X only, or one marker.
IsPassThroughToken(t) ==
    \/ t # <<>> /\ \A i \in 1..Len(t) : t[i] \in {Chr.x, Chr.X}
    \/ Len(t) = 1 /\ t[1] \in MarkerChars

\* The concatenation of a sequence of strings.
RECURSIVE Flatten(_)
Flatten(strings) ==
    IF strings = <<>> THEN <<>>
    ELSE Head(strings) \o Flatten(Tail(strings))

\* C6 as stated: for a token that is not passed through, get_cuneiform
\* consults the dict for the normalized form of the marker-stripped token,
\* so the token and its normalized key resolve alike.
C6_LookupByNormalizedKey ==
    (res.op = "get_cuneiform" /\ ~IsPassThroughToken(res.arg)
         /\ Unmarked(res.arg) # <<>>)
    => LET key == remove_abbreviations(Unmarked(res.arg)).value
           other == get_cuneiform(transliteration_to_cuneiform, key,
                                  res.include)
       IN /\ res.looked = <<key>>
          /\ (~IsPassThroughToken(key)
                 /\ remove_abbreviations(key).value = key)
              => /\ res.kind = other.kind
                 /\ res.kind = "return" =>
                       Unmarked(res.value) = Unmarked(other.value)

\* C7: the tokenizer never fails; tokens and separators have the same
\* length; every separator but the last is one of "-", " ", "."; the last
\* is empty; no token holds a separator character; and the token+separator
\* pairs concatenated in order give the stripped line.
C7_TokenizationRoundTrip ==
    line.op # "none"
    => LET n == Len(line.tokens) IN
       /\ line.kind = "return"
       /\ n >= 1
       /\ Len(line.separators) = n
       /\ \A i \in 1..(n - 1) :
             line.separators[i]
                 \in {<<Chr.hyphen>>, <<Chr.space>>, <<Chr.dot>>}
       /\ line.separators[n] = <<>>
       /\ \A i \in 1..n : \A j \in 1..Len(line.tokens[i]) :
             line.tokens[i][j] \notin {Chr.hyphen, Chr.space, Chr.dot}
       /\ Flatten([i \in 1..n |-> line.tokens[i] \o line.separators[i]])
             = Strip(line.input)

\* C7 witness: a line with whitespace to strip that starts with a separator
\* was split into an empty token and a second token.
C7_Witness ==
    /\ line.op = "cuneify_line_structured"
    /\ Strip(line.input) # line.input
    /\ Len(line.tokens) = 2
    /\ line.tokens[1] = <<>>
    /\ line.tokens[2] # <<>>

\* C8: a token that is leading "[" characters, a base without marker
\* characters that resolves in the dict, and trailing "!", "?", "]"
\* characters comes back as the leading markers, the glyphs of the base and
\* the trailing markers; without the extra characters it comes back as the
\* glyphs alone; the dict is consulted for the base only.
C8_MarkerRoundTrip ==
    (res.op = "get_cuneiform" /\ ~IsPassThroughToken(res.arg))
    => \A i \in 0..Len(res.arg) : \A j \in i..Len(res.arg) :
          LET lead == SubSeq(res.arg, 1, i)
              base == SubSeq(res.arg, i + 1, j)
              trail == SubSeq(res.arg, j + 1, Len(res.arg))
              m == transliteration_to_cuneiform
              glyphs == Decode(IF base = <<>> THEN <<>> ELSE m[base])
          IN ( /\ \A k \in 1..Len(lead) : lead[k] = Chr.lbracket
               /\ \A k \in 1..Len(base) : base[k] \notin MarkerChars
               /\ \A k \in 1..Len(trail) :
                     trail[k] \in {Chr.bang, Chr.qmark, Chr.rbracket}
               /\ (base = <<>> \/ base \in DOMAIN m) )
             => /\ res.kind = "return"
                /\ res.value = IF res.include
                               THEN lead \o glyphs \o trail
                               ELSE glyphs
                /\ res.looked = IF base = <<>> THEN <<>> ELSE <<base>>

\* C8 witness: "[a]" came back as "[", the glyph of "a" and "]".
C8_Witness ==
    /\ res.op = "get_cuneiform"
    /\ res.arg = <<Chr.lbracket, Chr.a, Chr.rbracket>>
    /\ res.include
    /\ res.kind = "return"
    /\ Len(res.value) = 3
    /\ res.value[2] = 73728

\* A step that is one get_cuneiform call on an open cache.
GetCuneiformStep ==
    pc = "body" /\ pc' = "body" /\ res'.op = "get_cuneiform"

\* C9: a token of x/X characters only, and each of "?", "!", "[", "]",
\* comes back unchanged whatever the dict holds, without an exception,
\* without the dict or the remote service being consulted and with the dict
\* and the dirty flag unchanged.  No other token takes that path: its
\* marker-stripped text, when not empty, is looked up in the dict, and
\* its markers are dropped when the extra characters are not asked for.
C9_PassThrough ==
    [][GetCuneiformStep =>
          LET t == res'.arg IN
          /\ IsPassThroughToken(t) =>
                /\ res'.kind = "return"
                /\ res'.value = t
                /\ res'.looked = <<>>
                /\ ~res'.remote
                /\ transliteration_to_cuneiform'
                      = transliteration_to_cuneiform
                /\ cache_modified' = cache_modified
          /\ (~IsPassThroughToken(t) /\ Unmarked(t) # <<>>) =>
                res'.looked = <<Unmarked(t)>>
          /\ (~IsPassThroughToken(t) /\ Unmarked(t) = <<>>
                 /\ ~res'.include) =>
                res'.value = <<>>]_vars

\* C9 witness: "x" came back unchanged from a fetching cache whose dict
\* holds "x" as a key.
C9_Witness ==
    /\ pc = "body"
    /\ res.op = "get_cuneiform"
    /\ res.arg = <<Chr.x>>
    /\ res.value = <<Chr.x>>
    /\ fetching
    /\ <<Chr.x>> \in DOMAIN transliteration_to_cuneiform

\* What a token contributes to the glyphs-only rendering.
Contribution(m, token, indicator) ==
    LET r == get_cuneiform(m, token, TRUE)
    IN IF r.kind = "raise"
       THEN (IF indicator = <<>> THEN token ELSE indicator)
       ELSE r.value

\* C10: the glyphs-only rendering never fails; it is one item per token, in
\* order, joined by single spaces: the lookup's result, or for a token
\* whose lookup failed the placeholder, or the token itself when the
\* placeholder is empty.  The tokens recorded as unresolved are exactly
\* those whose lookup failed.
C10_GlyphsOnlyRendering ==
    (line.op = "cuneify_line" /\ ~line.show)
    => LET n == Len(line.tokens)
           m == transliteration_to_cuneiform
       IN /\ line.kind = "return"
          /\ line.text =
                Flatten([i \in 1..n |->
                    Contribution(m, line.tokens[i], line.indicator)
                    \o (IF i < n THEN <<Chr.space>> ELSE <<>>)])
          /\ line.unrecognized_tokens =
                SelectSeq(line.tokens,
                          LAMBDA t : get_cuneiform(m, t, TRUE).kind = "raise")

\* C10 witness: a line of a resolved and an unresolved token was rendered
\* with the empty placeholder.
C10_Witness ==
    /\ line.op = "cuneify_line"
    /\ ~line.show
    /\ line.indicator = <<>>
    /\ Len(line.tokens) = 2
    /\ line.symbols[1] # <<>>
    /\ line.symbols[1] # <<line.tokens[1]>>
    /\ line.symbols[2] = <<>>
    /\ line.tokens[2] # <<>>

\* The width of column i of the aligned rendering of the recorded line.
ColumnWidth(i) ==
    LET segment == line.tokens[i] \o line.separators[i]
        resolved == Contribution(transliteration_to_cuneiform,
                                 line.tokens[i], line.indicator)
    IN IF Len(segment) >= Len(resolved) THEN Len(segment) ELSE Len(resolved)

\* The offset at which column i starts: the widths of the columns before it.
RECURSIVE ColumnOffset(_)
ColumnOffset(i) ==
    IF i <= 1 THEN 0 ELSE ColumnOffset(i - 1) + ColumnWidth(i - 1)

\* Character k of s left-justified: s[k], or a space beyond its end.
Padded(s, k) == IF k <= Len(s) THEN s[k] ELSE Chr.space

\* C11: the aligned rendering never fails and is two lines of the same
\* length joined by one newline.  Column i starts at the same offset in both
\* lines, is max(len(token+separator), len(resolved)) wide, and holds
\* token+separator above and the resolved (or substituted) string below,
\* each padded on the right with spaces; the segments of the first line
\* without their padding give the stripped input line.
C11_AlignedRendering ==
    (line.op = "cuneify_line" /\ line.show)
    => LET n == Len(line.tokens)
           m == transliteration_to_cuneiform
           total == ColumnOffset(n + 1)
       IN /\ line.kind = "return"
          /\ Len(line.text) = 2 * total + 1
          /\ \A k \in 1..Len(line.text) :
                (line.text[k] = 10) <=> (k = total + 1)
          /\ \A i \in 1..n : \A k \in 1..ColumnWidth(i) :
                /\ line.text[ColumnOffset(i) + k]
                      = Padded(line.tokens[i] \o line.separators[i], k)
                /\ line.text[total + 1 + ColumnOffset(i) + k]
                      = Padded(Contribution(m, line.tokens[i],
                                            line.indicator), k)
          /\ Flatten([i \in 1..n |->
                 SubSeq(line.text, ColumnOffset(i) + 1,
                        ColumnOffset(i) + Len(line.tokens[i])
                            + Len(line.separators[i]))])
                = Strip(line.input)

\* C11 witness: an aligned rendering of two columns, the first as wide as
\* its token and separator with the glyph line padded, the second as wide
\* as its two glyphs with the original line padded.
C11_Witness ==
    /\ line.op = "cuneify_line"
    /\ line.show
    /\ Len(line.tokens) = 2
    /\ line.symbols[1] # <<>>
    /\ Len(line.symbols[1][1]) < Len(line.tokens[1]) + 1
    /\ line.symbols[2] # <<>>
    /\ Len(line.symbols[2][1]) > Len(line.tokens[2])
    /\ Len(line.text) = 9

(***************************************************************************)
(* Properties of the sign list, the document renderer and the normalizer.  *)
(***************************************************************************)
\* The tokens of the text the sign list was built from, markers removed.
SurfaceTokens ==
    LET tokens == TokensOfWords(SplitWords(res.arg, <<>>))
    IN [k \in 1..Len(tokens) |-> Unmarked(tokens[k])]

\* Whether a surface token resolves, and what it resolves to.
Resolves(t) ==
    get_cuneiform(transliteration_to_cuneiform, t, TRUE).kind = "return"

GlyphsOf(t) == get_cuneiform(transliteration_to_cuneiform, t, TRUE).value

\* The first position at which a resolving surface token satisfies P.
FirstResolved(P(_)) ==
    LET S == SurfaceTokens
    IN CHOOSE k \in 1..Len(S) :
          /\ Resolves(S[k]) /\ P(S[k])
          /\ \A j \in 1..(k - 1) : ~(Resolves(S[j]) /\ P(S[j]))

\* The sign list of the text: one entry per glyph sequence some token
\* resolved to, in order of first appearance, each with the tokens that
\* resolved to it, in order of first appearance and none twice.
IsSignList(entries) ==
    LET S == SurfaceTokens
        resolved == {k \in 1..Len(S) : Resolves(S[k])}
    IN /\ {entries[i][1] : i \in 1..Len(entries)}
             = {GlyphsOf(S[k]) : k \in resolved}
       /\ \A i, j \in 1..Len(entries) :
             i < j =>
                /\ entries[i][1] # entries[j][1]
                /\ FirstResolved(LAMBDA t : GlyphsOf(t) = entries[i][1])
                      < FirstResolved(LAMBDA t : GlyphsOf(t) = entries[j][1])
       /\ \A i \in 1..Len(entries) :
             LET listed == entries[i][2] IN
             /\ {listed[a] : a \in 1..Len(listed)}
                   = {S[k] : k \in {r \in resolved :
                                      GlyphsOf(S[r]) = entries[i][1]}}
             /\ \A a, b \in 1..Len(listed) :
                   a < b =>
                      /\ listed[a] # listed[b]
                      /\ FirstResolved(LAMBDA t : t = listed[a])
                            < FirstResolved(LAMBDA t : t = listed[b])

\* C12: with return_unrecognised the sign-list build never fails, returns
\* the sign list of the text and the set of the surface tokens that did not
\* resolve; without it the build returns the sign list when every token
\* resolves and otherwise fails with the exception of the first token that
\* does not.
C12_SignList ==
    res.op = "ordered_symbol_to_transliterations"
    => LET S == SurfaceTokens
           failing == {k \in 1..Len(S) : ~Resolves(S[k])}
       IN IF res.include \/ failing = {}
          THEN /\ res.kind = "return"
               /\ IsSignList(res.value.result)
               /\ res.value.unrecognised = {S[k] : k \in failing}
          ELSE /\ res.kind = "raise"
               /\ res.exc = "UnrecognisedSymbol"
               /\ res.excarg
                     = S[CHOOSE k \in failing : \A j \in failing : k <= j]

\* C12 witness: the sign list of "a a b", a and b resolving to the same
\* glyph, is the one entry glyph -> ["a", "b"].
C12_Witness ==
    /\ res.op = "ordered_symbol_to_transliterations"
    /\ res.arg = <<Chr.a, Chr.space, Chr.a, Chr.space, Chr.b>>
    /\ res.kind = "return"
    /\ res.value.result = << <<<<73728>>, <<<<Chr.a>>, <<Chr.b>>>>>> >>

\* Whether a line of a file is <digits>.<spaces and tabs><rest>.
HasLineNumber(l) ==
    \E d \in 1..(Len(l) - 1) :
       /\ \A k \in 1..d : l[k] \in 48..57
       /\ l[d + 1] = Chr.dot

\* The glyph line of a numbered line: "#", the spaces and tabs after the
\* line number, the rendering of the rest of the line, and a newline.
GlyphLine(l, show) ==
    LET d == CHOOSE d \in 1..(Len(l) - 1) :
                 (\A k \in 1..d : l[k] \in 48..57) /\ l[d + 1] = Chr.dot
        after == SubSeq(l, d + 2, Len(l))
        w == CHOOSE w \in 0..Len(after) :
                 /\ \A k \in 1..w : after[k] \in {Chr.space, Chr.tab}
                 /\ (w < Len(after)
                        => after[w + 1] \notin {Chr.space, Chr.tab})
        rest == SelectSeq(SubSeq(after, w + 1, Len(after)),
                          LAMBDA c : c # Chr.newline)
    IN <<Chr.hash>> \o SubSeq(after, 1, w)
       \o cuneify_line(transliteration_to_cuneiform, rest, show,
                       <<Chr.qmark>>).text
       \o <<Chr.newline>>

\* What the document renderer emits for line i of the file.
Emitted(i) ==
    LET l == res.value.lines[i]
    IN l \o (IF HasLineNumber(l) THEN GlyphLine(l, res.include) ELSE <<>>)

\* C13 as stated: in ATF mode the output is the lines of the file, each
\* unchanged and in order, each numbered line followed by its glyph line
\* and no other line followed by anything; and each glyph line is a new
\* line, that is, it starts right after a newline.
C13_AtfDocument ==
    (res.op = "cuneify_file" /\ res.value.parse_atf)
    => LET n == Len(res.value.lines)
           output == res.value.output
       IN /\ res.kind = "return"
          /\ output = Flatten([i \in 1..n |-> Emitted(i)])
          /\ \A i \in 1..n :
                HasLineNumber(res.value.lines[i])
                => output[Len(Flatten([j \in 1..(i - 1) |-> Emitted(j)]))
                          + Len(res.value.lines[i])] = Chr.newline

\* The normalization C14 describes, of a token of plain characters and
\* accented vowels: each accented vowel replaced by its base letter, "2"
\* appended when an acute vowel occurs, then "3" when a grave one does.
AccentFolded(t) ==
    [k \in 1..Len(t) |->
        IF t[k] \in {Chr.aacute, Chr.agrave} THEN Chr.a ELSE t[k]]
    \o (IF \E k \in 1..Len(t) : t[k] = Chr.aacute THEN <<Chr.two>> ELSE <<>>)
    \o (IF \E k \in 1..Len(t) : t[k] = Chr.agrave THEN <<Chr.three>>
        ELSE <<>>)

\* C14 as stated: _remove_abbreviations raises NotAToken on a string that
\* holds "-", " " or "."; on any other token made of letters, digits and
\* accented vowels it returns the token with its accented vowels folded
\* and the suffixes appended, so that "lu2" is unchanged and the bare acute
\* vowel a gives "a2".
C14_Normalize ==
    res.op = "_remove_abbreviations"
    => IF \E k \in 1..Len(res.arg) :
             res.arg[k] \in {Chr.hyphen, Chr.space, Chr.dot}
       THEN res.kind = "raise" /\ res.exc = "NotAToken"
       ELSE (\A k \in 1..Len(res.arg) :
                res.arg[k] \in {Chr.a, Chr.l, Chr.u, Chr.two, Chr.aacute,
                                Chr.agrave})
            => /\ res.kind = "return"
               /\ res.value = AccentFolded(res.arg)

\* C15 as stated: no step of a cache constructed with read_only set
\* (__enter__, a lookup, get_cuneiform, __exit__, whatever the dirty flag)
\* changes the backing file's existence or contents.
C15_ReadOnlyKeepsStore ==
    [][read_only => cache_file' = cache_file]_vars

=============================================================================
